---- MODULE Spec2Model ----
(***************************************************************************)
(* augur titers: infer_substitution_model.run and infer_tree_model.run of  *)
(* augur/titers.py, and mask_fasta as exercised by tests/test_mask.py.     *)
(* One run of one command is one behaviour: the command and its arguments  *)
(* are fixed in Init, every statement of run() that can fail or that       *)
(* changes the result document is one action.                              *)
(***************************************************************************)
EXTENDS Integers, Sequences, FiniteSets, TLC

VARIABLES
    cmd,                  \* "sub" | "tree" | "mask": the command dispatched
    argsTree,             \* args.tree: NoTree (None) or a path
    pc,                   \* position in run()
    substitution_effect,  \* TM_subs.substitution_effect: (gene, mutation) -> effect
    doc,                  \* subs_model / tree_model, the result document
    treeN,                \* number of clades of the tree read (0: no tree read)
    parent,               \* parent[n] of clade n (0 for the root, clade 1)
    name,                 \* clade.name of clade n
    cTiterSub,            \* the cTiterSub attribute, for the clades that have it
    dTiter,               \* the dTiter attribute set by TreeModel.train
    cTiter,               \* the cTiter attribute set by TreeModel.train
    nodes,                \* the local dict nodes: name -> annotation
    it,                   \* index of the clade find_clades() has yielded
    ci,                   \* index of the next child in node.clades
    processed,            \* the children handled by the loop body, in order
    titer_params,         \* TreeModel: the fitted effect of each fitted branch
    outFile,              \* the documents write_json has written to args.output
    stdout,               \* the lines printed
    maskIn,               \* mask_fasta: the records of in_file
    maskSites,            \* mask_fasta: mask_sites
    maskOut               \* mask_fasta: the records written to out_file

vars == <<cmd, argsTree, pc, substitution_effect, doc, treeN, parent, name,
          cTiterSub, dTiter, cTiter, nodes, it, ci, processed, titer_params,
          outFile, stdout,
          maskIn, maskSites, maskOut>>

\* ---------------------------------------------------------------- bounds
MaxNodes == 3
MaskMaxLen == 2
MaskMaxSite == 3

\* ---------------------------------------------------------------- inputs
NoTree == "<no tree>"
TreePath == "tree.nwk"
NoName == "<None>"
\* The names a clade of the parsed tree can carry; NoName is Python's None,
\* the name of a clade the Newick string leaves unnamed.
NamePool == {NoName, "A", "B", "C"}
Gap == "-"
Genes == <<"HA1">>
\* The alignment loaded for the run: strain -> gene -> aligned sequence.
Alignment ==
    [A |-> [HA1 |-> <<"K", "K", "K">>],
     B |-> [HA1 |-> <<"K", "N", "K">>],
     C |-> [HA1 |-> <<"N", "N", "-">>]]
EffectValues == {1, 2}
Empty == [x \in {} |-> 0]

\* ---------------------------------------------------------------- helpers
RECURSIVE SortedSeq(_)
SortedSeq(S) ==
    IF S = {} THEN <<>>
    ELSE LET m == CHOOSE x \in S : \A y \in S : x <= y
         IN <<m>> \o SortedSeq(S \ {m})

RECURSIVE SetSum(_, _)
SetSum(S, f) ==
    IF S = {} THEN 0
    ELSE LET x == CHOOSE y \in S : TRUE IN f[x] + SetSum(S \ {x}, f)

Range(s) == {s[i] : i \in 1..Len(s)}

\* Every rooted tree with n clades, clade 1 the root, children in label order.
TreeShapes(n) ==
    {p \in [1..n -> 0..n] : p[1] = 0 /\ \A k \in 2..n : p[k] >= 1 /\ p[k] < k}

\* node.clades: the ordered children of clade n.
clades(p, n) == SortedSeq({k \in DOMAIN p : p[k] = n})

RECURSIVE preorder(_, _)
preorder(p, n) ==
    LET kids == clades(p, n)
        sub[i \in 0..Len(kids)] ==
            IF i = 0 THEN <<>> ELSE sub[i - 1] \o preorder(p, kids[i])
    IN <<n>> \o sub[Len(kids)]

RECURSIVE postorder(_, _)
postorder(p, n) ==
    LET kids == clades(p, n)
        sub[i \in 0..Len(kids)] ==
            IF i = 0 THEN <<>> ELSE sub[i - 1] \o postorder(p, kids[i])
    IN sub[Len(kids)] \o <<n>>

find_clades_postorder(p) == postorder(p, 1)
\* tree.find_clades(): every clade, depth first, a clade before its children.
find_clades(p) == preorder(p, 1)

\* dict[key] = value
Put(f, k, v) == [x \in (DOMAIN f) \cup {k} |-> IF x = k THEN v ELSE f[x]]

\* ------------------------------------------------- substitution model
\* A strain the model holds a sequence for.
Resolvable(strain) == strain \in DOMAIN Alignment

\* The substitutions of one gene, strain1's residue first: (gene, aa1 pos aa2),
\* positions counted from 1, positions with a gap on either side left out.
GeneMutations(g, strain1, strain2) ==
    LET s1 == Alignment[strain1][g]
        s2 == Alignment[strain2][g]
        P == SortedSeq({p \in 1..Len(s1) :
                          s1[p] # s2[p] /\ s1[p] # Gap /\ s2[p] # Gap})
    IN [i \in 1..Len(P) |-> <<g, <<s1[P[i]], P[i], s2[P[i]]>>>>]

\* TM_subs.get_mutations(strain1, strain2): the list of (gene, mutation).
get_mutations(strain1, strain2) ==
    LET acc[i \in 0..Len(Genes)] ==
            IF i = 0 THEN <<>>
            ELSE acc[i - 1] \o GeneMutations(Genes[i], strain1, strain2)
    IN acc[Len(Genes)]

Lookup_default_one(eff, key) == IF key \in DOMAIN eff THEN eff[key] ELSE 1
\* substitution_effect.get((gene, mutation), 0)
Lookup(eff, key) == IF key \in DOMAIN eff THEN eff[key] ELSE 0

EffectsAfterLookups_inserting(eff, muts) ==
    [k \in (DOMAIN eff) \cup Range(muts) |-> IF k \in DOMAIN eff THEN eff[k] ELSE 0]
\* What the lookups of one branch leave in substitution_effect: dict.get
\* never inserts the key it misses.
EffectsAfterLookups(eff, muts) == eff

\* dTiterSub = 0; for gene, mutation in mutations: dTiterSub += ...
RECURSIVE TiterDrop(_, _, _)
TiterDrop(acc, muts, eff) ==
    IF muts = <<>> THEN acc
    ELSE TiterDrop(acc + Lookup(eff, Head(muts)), Tail(muts), eff)

ChildCTiterSub_own_drop(parentC, d) == d
\* child.cTiterSub = node.cTiterSub + dTiterSub
ChildCTiterSub(parentC, d) == parentC + d

\* mutations = TM_subs.get_mutations(child.name, node.name)
ChildMutations(child, node) == get_mutations(name[child], name[node])

NodeKey_parent(child, node) == name[node]
\* nodes[child.name] = ...
NodeKey(child, node) == name[child]

TreeSupplied_always(a) == TRUE
\* if args.tree:
TreeSupplied(a) == a # NoTree

\* Every (gene, mutation) key a fit over this alignment can carry.
AllKeys ==
    UNION {Range(get_mutations(a, b)) : a \in DOMAIN Alignment, b \in DOMAIN Alignment}
\* The fits train() can end with: some keys fitted, the others absent.
Fits == UNION {[K -> EffectValues] : K \in SUBSET AllKeys}

\* compile_*(): the serialised parameters (the fit's potency and avidity are
\* not used by the annotation; they stand as fixed tables).
compile_titers == [S1 |-> [V1 |-> 2]]
compile_potencies == [S1 |-> 1]
compile_virus_effects == [V1 |-> 0]
compile_substitution_effects == substitution_effect

TitersState == <<titer_params, dTiter, cTiter>>
MaskState == <<maskIn, maskSites, maskOut>>
TreeState == <<treeN, parent, name>>
LoopState == <<cTiterSub, nodes, it, ci, processed>>

\* alignments = load_alignments(args.alignment, args.gene_names)
SubLoad ==
    /\ cmd = "sub" /\ pc = "load"
    /\ pc' = "construct"
    /\ UNCHANGED <<cmd, argsTree, substitution_effect, doc, TreeState, LoopState,
                   TitersState, outFile, stdout, MaskState>>

\* TM_subs = SubstitutionModel(alignments, args.titers)
SubConstruct ==
    /\ cmd = "sub" /\ pc = "construct"
    /\ pc' = "prepare"
    /\ UNCHANGED <<cmd, argsTree, substitution_effect, doc, TreeState, LoopState,
                   TitersState, outFile, stdout, MaskState>>

\* TM_subs.prepare()
SubPrepare ==
    /\ cmd = "sub" /\ pc = "prepare"
    /\ pc' = "train"
    /\ UNCHANGED <<cmd, argsTree, substitution_effect, doc, TreeState, LoopState,
                   TitersState, outFile, stdout, MaskState>>

\* TM_subs.train()
SubTrain ==
    /\ cmd = "sub" /\ pc = "train"
    /\ \E fit \in Fits : substitution_effect' = fit
    /\ pc' = "compile"
    /\ UNCHANGED <<cmd, argsTree, doc, TreeState, LoopState,
                   TitersState, outFile, stdout, MaskState>>

\* subs_model = {'titers': ..., 'potency': ..., 'avidity': ..., 'substitution': ...}
SubCompile ==
    /\ cmd = "sub" /\ pc = "compile"
    /\ doc' = [titers |-> compile_titers,
               potency |-> compile_potencies,
               avidity |-> compile_virus_effects,
               substitution |-> compile_substitution_effects]
    /\ pc' = IF TreeSupplied(argsTree) THEN "read_tree" ELSE "write"
    /\ UNCHANGED <<cmd, argsTree, substitution_effect, TreeState, LoopState,
                   TitersState, outFile, stdout, MaskState>>

\* tree = Phylo.read(args.tree, 'newick'); tree.root.cTiterSub = 0;
\* nodes = {tree.root.name: {"dTiterSub": 0, "cTiterSub": 0}}
SubReadTree ==
    /\ cmd = "sub" /\ pc = "read_tree"
    /\ \E n \in 1..MaxNodes : \E p \in TreeShapes(n) : \E nm \in [1..n -> NamePool] :
          /\ treeN' = n
          /\ parent' = p
          /\ name' = nm
          /\ nodes' = Put(Empty, nm[1], [dTiterSub |-> 0, cTiterSub |-> 0])
    /\ cTiterSub' = Put(Empty, 1, 0)
    /\ it' = 1
    /\ ci' = 1
    /\ pc' = "annotate"
    /\ UNCHANGED <<cmd, argsTree, substitution_effect, doc, processed,
                   TitersState, outFile, stdout, MaskState>>

\* The body of "for child in node.clades", for the next child of the clade
\* find_clades() has yielded.
SubProcessChild ==
    /\ cmd = "sub" /\ pc = "annotate"
    /\ it <= treeN
    /\ LET node == find_clades(parent)[it]
           kids == clades(parent, node)
       IN /\ ci <= Len(kids)
          /\ LET child == kids[ci]
             IN IF \/ ~Resolvable(name[child])
                   \/ ~Resolvable(name[node])
                   \/ node \notin DOMAIN cTiterSub
                THEN /\ pc' = "failed"
                     /\ UNCHANGED <<substitution_effect, LoopState>>
                ELSE LET mutations == ChildMutations(child, node)
                         dTiterSub == TiterDrop(0, mutations, substitution_effect)
                         c == ChildCTiterSub(cTiterSub[node], dTiterSub)
                     IN /\ substitution_effect' =
                              EffectsAfterLookups(substitution_effect, mutations)
                        /\ cTiterSub' = Put(cTiterSub, child, c)
                        /\ nodes' = Put(nodes, NodeKey(child, node),
                                        [dTiterSub |-> dTiterSub, cTiterSub |-> c])
                        /\ ci' = ci + 1
                        /\ processed' = Append(processed, child)
                        /\ UNCHANGED <<pc, it>>
    /\ UNCHANGED <<cmd, argsTree, doc, TreeState, TitersState, outFile, stdout,
                   MaskState>>

\* node.clades is exhausted: find_clades() yields the next clade.
SubNextClade ==
    /\ cmd = "sub" /\ pc = "annotate"
    /\ it <= treeN
    /\ ci > Len(clades(parent, find_clades(parent)[it]))
    /\ it' = it + 1
    /\ ci' = 1
    /\ UNCHANGED <<cmd, argsTree, pc, substitution_effect, doc, TreeState,
                   cTiterSub, nodes, processed, TitersState, outFile, stdout,
                   MaskState>>

\* subs_model["nodes"] = nodes
SubAttachNodes ==
    /\ cmd = "sub" /\ pc = "annotate"
    /\ it > treeN
    /\ doc' = Put(doc, "nodes", nodes)
    /\ pc' = "write"
    /\ UNCHANGED <<cmd, argsTree, substitution_effect, TreeState, LoopState,
                   TitersState, outFile, stdout, MaskState>>

\* write_json(subs_model, args.output)
SubWrite ==
    /\ cmd = "sub" /\ pc = "write"
    /\ outFile' = Append(outFile, doc)
    /\ pc' = "print"
    /\ UNCHANGED <<cmd, argsTree, substitution_effect, doc, TreeState, LoopState,
                   TitersState, stdout, MaskState>>

\* print(citation banner); print("results written to", args.output)
SubPrint ==
    /\ cmd = "sub" /\ pc = "print"
    /\ stdout' = stdout \o <<"Inferred titer model of type 'SubstitutionModel'",
                             "results written to">>
    /\ pc' = "done"
    /\ UNCHANGED <<cmd, argsTree, substitution_effect, doc, TreeState, LoopState,
                   TitersState, outFile, MaskState>>

\* ---------------------------------------------------------- tree model
\* The branch fits train() can end with: a branch that lies on no measurement
\* path has no parameter.
BranchFits(n) == UNION {[K -> EffectValues] : K \in SUBSET (2..n)}

\* TreeModel.train(): dTiter of a clade is the fitted effect of its incoming
\* branch, 0 when the branch has none; cTiter is the sum from the root.
TrainedDTiter(fit, n) == [k \in 1..n |-> IF k \in DOMAIN fit THEN fit[k] ELSE 0]

RECURSIVE TrainedCTiter(_, _, _)
TrainedCTiter(p, d, k) ==
    IF p[k] = 0 THEN 0 ELSE TrainedCTiter(p, d, p[k]) + d[k]

TreeNodesExport_fitted_only(order, nm, d, c) ==
    LET acc[i \in 0..Len(order)] ==
            IF i = 0 THEN Empty
            ELSE IF d[order[i]] = 0 THEN acc[i - 1]
            ELSE Put(acc[i - 1], nm[order[i]],
                     [dTiter |-> d[order[i]], cTiter |-> c[order[i]]])
    IN acc[Len(order)]
\* {n.name: {"dTiter": n.dTiter, "cTiter": n.cTiter} for n in T.find_clades()}
TreeNodesExport(order, nm, d, c) ==
    LET acc[i \in 0..Len(order)] ==
            IF i = 0 THEN Empty
            ELSE Put(acc[i - 1], nm[order[i]],
                     [dTiter |-> d[order[i]], cTiter |-> c[order[i]]])
    IN acc[Len(order)]

SubState == <<substitution_effect, LoopState>>

\* T = Phylo.read(args.tree, 'newick')
TreeRead ==
    /\ cmd = "tree" /\ pc = "read_tree"
    /\ \E n \in 1..MaxNodes : \E p \in TreeShapes(n) : \E nm \in [1..n -> NamePool] :
          /\ treeN' = n
          /\ parent' = p
          /\ name' = nm
    /\ pc' = "construct"
    /\ UNCHANGED <<cmd, argsTree, doc, SubState, TitersState, outFile, stdout,
                   MaskState>>

\* TM_tree = TreeModel(T, args.titers)
TreeConstruct ==
    /\ cmd = "tree" /\ pc = "construct"
    /\ pc' = "prepare"
    /\ UNCHANGED <<cmd, argsTree, doc, TreeState, SubState, TitersState, outFile,
                   stdout, MaskState>>

\* TM_tree.prepare()
TreePrepare ==
    /\ cmd = "tree" /\ pc = "prepare"
    /\ pc' = "train"
    /\ UNCHANGED <<cmd, argsTree, doc, TreeState, SubState, TitersState, outFile,
                   stdout, MaskState>>

\* TM_tree.train()
TreeTrain ==
    /\ cmd = "tree" /\ pc = "train"
    /\ \E fit \in BranchFits(treeN) :
          /\ titer_params' = fit
          /\ dTiter' = TrainedDTiter(fit, treeN)
          /\ cTiter' = [k \in 1..treeN |->
                          TrainedCTiter(parent, TrainedDTiter(fit, treeN), k)]
    /\ pc' = "export"
    /\ UNCHANGED <<cmd, argsTree, doc, TreeState, SubState, outFile, stdout,
                   MaskState>>

\* tree_model = {'titers': ..., 'potency': ..., 'avidity': ..., 'nodes': {...}}
TreeExport ==
    /\ cmd = "tree" /\ pc = "export"
    /\ IF \A n \in 1..treeN : n \in DOMAIN dTiter /\ n \in DOMAIN cTiter
       THEN /\ doc' = [titers |-> compile_titers,
                       potency |-> compile_potencies,
                       avidity |-> compile_virus_effects,
                       nodes |-> TreeNodesExport(find_clades(parent), name,
                                                 dTiter, cTiter)]
            /\ pc' = "write"
       ELSE /\ pc' = "failed"
            /\ UNCHANGED doc
    /\ UNCHANGED <<cmd, argsTree, TreeState, SubState, TitersState, outFile,
                   stdout, MaskState>>

\* write_json(tree_model, args.output)
TreeWrite ==
    /\ cmd = "tree" /\ pc = "write"
    /\ outFile' = Append(outFile, doc)
    /\ pc' = "print"
    /\ UNCHANGED <<cmd, argsTree, doc, TreeState, SubState, TitersState, stdout,
                   MaskState>>

\* print(citation banner); print("results written to", args.output)
TreePrint ==
    /\ cmd = "tree" /\ pc = "print"
    /\ stdout' = stdout \o <<"Inferred titer model of type 'TreeModel'",
                             "results written to">>
    /\ pc' = "done"
    /\ UNCHANGED <<cmd, argsTree, doc, TreeState, SubState, TitersState, outFile,
                   MaskState>>

\* The calls of run() that read or fit the inputs, or write the output, and
\* can raise: the exception leaves run() at once.
Raising == {"load", "construct", "prepare", "train", "read_tree", "write"}

Raise_writing_partial ==
    /\ cmd \in {"sub", "tree"}
    /\ pc \in Raising
    /\ pc' = "failed"
    /\ outFile' = Append(outFile, doc)
    /\ UNCHANGED <<cmd, argsTree, doc, TreeState, SubState, TitersState, stdout,
                   MaskState>>
Raise ==
    /\ cmd \in {"sub", "tree"}
    /\ pc \in Raising
    /\ pc' = "failed"
    /\ UNCHANGED <<cmd, argsTree, doc, TreeState, SubState, TitersState, outFile,
                   stdout, MaskState>>

\* ---------------------------------------------------------------- mask
MaskAlphabet == {"A", "N"}
MaskSeqs == UNION {[1..l -> MaskAlphabet] : l \in 0..MaskMaxLen}
MaskIds == <<"SEQ1", "SEQ2">>
MaskInputs ==
    {[i \in 1..k |-> [id |-> MaskIds[i], seq |-> ss[i]]] :
        k \in 1..Len(MaskIds), ss \in [1..Len(MaskIds) -> MaskSeqs]}
MaskSiteLists == UNION {[1..l -> 0..MaskMaxSite] : l \in 0..2}

\* for site in mask_sites: if site < len(sequence): sequence[site] = "N"
\* (site counts from 0).
RECURSIVE MaskSequence_shifted(_, _)
MaskSequence_shifted(seq, sites) ==
    IF sites = <<>> THEN seq
    ELSE MaskSequence_shifted(
             IF Head(sites) >= 1 /\ Head(sites) <= Len(seq)
             THEN [seq EXCEPT ![Head(sites)] = "N"] ELSE seq,
             Tail(sites))
RECURSIVE MaskSequence(_, _)
MaskSequence(seq, sites) ==
    IF sites = <<>> THEN seq
    ELSE MaskSequence(
             IF Head(sites) < Len(seq)
             THEN [seq EXCEPT ![Head(sites) + 1] = "N"] ELSE seq,
             Tail(sites))

\* mask_fasta(mask_sites, in_file, out_file): one record out per record in.
mask_fasta(sites, records) ==
    [i \in 1..Len(records) |->
        [id |-> records[i].id, seq |-> MaskSequence(records[i].seq, sites)]]

MaskFasta ==
    /\ cmd = "mask" /\ pc = "mask"
    /\ maskOut' = mask_fasta(maskSites, maskIn)
    /\ pc' = "done"
    /\ UNCHANGED <<cmd, argsTree, doc, TreeState, SubState, TitersState, outFile,
                   stdout, maskIn, maskSites>>

\* ---------------------------------------------------------------- spec
Init ==
    /\ cmd \in {"sub", "tree", "mask"}
    /\ argsTree \in CASE cmd = "sub" -> {NoTree, TreePath}
                      [] cmd = "tree" -> {TreePath}
                      [] OTHER -> {NoTree}
    /\ pc = CASE cmd = "sub" -> "load"
              [] cmd = "tree" -> "read_tree"
              [] OTHER -> "mask"
    /\ substitution_effect = Empty
    /\ doc = Empty
    /\ treeN = 0
    /\ parent = Empty
    /\ name = Empty
    /\ cTiterSub = Empty
    /\ dTiter = Empty
    /\ cTiter = Empty
    /\ nodes = Empty
    /\ it = 1
    /\ ci = 1
    /\ processed = <<>>
    /\ titer_params = Empty
    /\ outFile = <<>>
    /\ stdout = <<>>
    /\ maskIn \in (IF cmd = "mask" THEN MaskInputs ELSE {<<>>})
    /\ maskSites \in (IF cmd = "mask" THEN MaskSiteLists ELSE {<<>>})
    /\ maskOut = <<>>

Next ==
    \/ SubLoad \/ SubConstruct \/ SubPrepare \/ SubTrain \/ SubCompile
    \/ SubReadTree \/ SubProcessChild \/ SubNextClade \/ SubAttachNodes
    \/ SubWrite \/ SubPrint
    \/ TreeRead \/ TreeConstruct \/ TreePrepare \/ TreeTrain \/ TreeExport
    \/ TreeWrite \/ TreePrint
    \/ Raise
    \/ MaskFasta

Spec == Init /\ [][Next]_vars

\* ---------------------------------------------------------- properties
Written == pc \in {"write", "print", "done"}
UniqueName(n) == \A m \in 1..treeN : m # n => name[m] # name[n]
NamesDistinct == \A n \in 1..treeN : UniqueName(n)
Depth2 == \E n \in 2..treeN : parent[n] # 1

\* The clades on the path from the root to n, the root left out.
RECURSIVE PathBelowRoot(_)
PathBelowRoot(n) == IF parent[n] = 0 THEN {} ELSE {n} \cup PathBelowRoot(parent[n])

\* The annotation the loop recorded last under the name of processed[i] is
\* that of processed[i] itself.
LastProcessedWithName(i) ==
    \A j \in (i + 1)..Len(processed) : name[processed[j]] # name[processed[i]]

\* C1: with a tree supplied to the substitution model, the root carries
\* cTiterSub 0 and is recorded with dTiterSub 0 and cTiterSub 0, and every
\* other annotated clade's recorded cTiterSub is its parent's cTiterSub plus
\* its own recorded dTiterSub, hence the sum of the recorded dTiterSub along
\* its path from the root (the record of a clade is read under its name, so
\* it is read for the clades whose name no other clade carries).
C1_CumulativeIsParentPlusOwn ==
    (cmd = "sub" /\ treeN > 0) =>
        /\ 1 \in DOMAIN cTiterSub
        /\ cTiterSub[1] = 0
        /\ UniqueName(1) => nodes[name[1]] = [dTiterSub |-> 0, cTiterSub |-> 0]
        /\ \A n \in (DOMAIN cTiterSub) \ {1} :
              /\ parent[n] \in DOMAIN cTiterSub
              /\ UniqueName(n) =>
                    /\ nodes[name[n]].cTiterSub = cTiterSub[n]
                    /\ nodes[name[n]].cTiterSub =
                          cTiterSub[parent[n]] + nodes[name[n]].dTiterSub
              /\ (\A k \in PathBelowRoot(n) : UniqueName(k)) =>
                    cTiterSub[n] =
                       SetSum(PathBelowRoot(n),
                              [k \in PathBelowRoot(n) |-> nodes[name[k]].dTiterSub])

C1_Witness ==
    /\ cmd = "sub" /\ pc = "done" /\ treeN = 3 /\ NamesDistinct
    /\ \E n \in 2..treeN :
          /\ parent[n] # 1
          /\ nodes[name[n]].dTiterSub > 0
          /\ nodes[name[parent[n]]].dTiterSub > 0
          /\ cTiterSub[n] = nodes[name[parent[n]]].dTiterSub + nodes[name[n]].dTiterSub

\* The fitted effects of the pairs get_mutations returned for the branch to
\* child, summed; a pair with no fitted effect adds nothing.
FittedSum(muts) ==
    LET S == {i \in 1..Len(muts) : muts[i] \in DOMAIN substitution_effect}
    IN SetSum(S, [i \in S |-> substitution_effect[muts[i]]])

\* C2: the dTiterSub recorded for a child is the sum of the fitted effects of
\* the (gene, mutation) pairs returned for its branch, an unfitted pair
\* counting 0; it is 0 when the branch has no mutation or only unfitted ones.
C2_DropIsSumOfFittedEffects ==
    cmd = "sub" =>
        \A i \in 1..Len(processed) :
            LastProcessedWithName(i) =>
                LET child == processed[i]
                    muts == ChildMutations(child, parent[child])
                    d == nodes[name[child]].dTiterSub
                IN /\ d = FittedSum(muts)
                   /\ (\A m \in 1..Len(muts) : muts[m] \notin DOMAIN substitution_effect)
                         => d = 0

C2_Witness ==
    /\ cmd = "sub" /\ pc = "done"
    /\ \E i \in 1..Len(processed) :
          LET child == processed[i]
              muts == ChildMutations(child, parent[child])
          IN /\ UniqueName(child)
             /\ Len(muts) = 2
             /\ muts[1] \notin DOMAIN substitution_effect
             /\ muts[2] \in DOMAIN substitution_effect
             /\ nodes[name[child]].dTiterSub = substitution_effect[muts[2]]
    /\ \E i \in 1..Len(processed) :
          LET child == processed[i]
              muts == ChildMutations(child, parent[child])
          IN /\ UniqueName(child)
             /\ Len(muts) = 1
             /\ muts[1] \notin DOMAIN substitution_effect
             /\ nodes[name[child]].dTiterSub = 0

SubKeys == {"titers", "potency", "avidity", "substitution"}

\* C3: the substitution model's document always holds titers, potency,
\* avidity and substitution, and holds nodes exactly when a tree was
\* supplied; with no tree supplied no tree is read and nothing is annotated.
C3_NodesIffTreeSupplied ==
    cmd = "sub" =>
        /\ \A i \in 1..Len(outFile) :
              /\ SubKeys \subseteq DOMAIN outFile[i]
              /\ ("nodes" \in DOMAIN outFile[i]) <=> (argsTree # NoTree)
        /\ Written =>
              /\ SubKeys \subseteq DOMAIN doc
              /\ ("nodes" \in DOMAIN doc) <=> (argsTree # NoTree)
        /\ argsTree = NoTree =>
              /\ treeN = 0
              /\ processed = <<>>
              /\ nodes = Empty
              /\ cTiterSub = Empty
              /\ pc \notin {"read_tree", "annotate"}

C3_Witness ==
    /\ cmd = "sub" /\ pc = "done" /\ argsTree = NoTree
    /\ Len(outFile) = 1
    /\ DOMAIN outFile[1] = SubKeys
    /\ DOMAIN substitution_effect # {}

\* C4: in both models the document is written at most once, and only once
\* loading, prepare, train and the annotation (where it applies) are done;
\* when a step fails nothing is written and nothing is printed.
C4_WrittenOnceAfterAllSteps ==
    cmd \in {"sub", "tree"} =>
        /\ Len(outFile) <= 1
        /\ Len(outFile) = 1 =>
              /\ pc \in {"print", "done"}
              /\ outFile[1] = doc
              /\ (cmd = "sub" /\ argsTree # NoTree) =>
                    /\ treeN > 0
                    /\ it > treeN
                    /\ Len(processed) = treeN - 1
                    /\ outFile[1].nodes = nodes
              /\ cmd = "tree" =>
                    /\ treeN > 0
                    /\ DOMAIN dTiter = 1..treeN
                    /\ DOMAIN cTiter = 1..treeN
        /\ stdout # <<>> => (pc = "done" /\ Len(outFile) = 1 /\ Len(stdout) = 2)
        /\ pc = "failed" => (outFile = <<>> /\ stdout = <<>>)

C4_Witness ==
    /\ cmd = "sub" /\ pc = "failed"
    /\ treeN = 3 /\ Len(processed) = 1
    /\ "substitution" \in DOMAIN doc
    /\ outFile = <<>> /\ stdout = <<>>

C6_MaskFastaMasksSitesInRange ==
    (cmd = "mask" /\ pc = "done") =>
        /\ Len(maskOut) = Len(maskIn)
        /\ \A r \in 1..Len(maskIn) :
              /\ maskOut[r].id = maskIn[r].id
              /\ Len(maskOut[r].seq) = Len(maskIn[r].seq)
              /\ \A j \in 1..Len(maskIn[r].seq) :
                    maskOut[r].seq[j] =
                       IF (j - 1) \in Range(maskSites) THEN "N"
                       ELSE maskIn[r].seq[j]

C6_Witness ==
    /\ cmd = "mask" /\ pc = "done"
    /\ Len(maskIn) = 2
    /\ Len(maskIn[1].seq) = 2 /\ Len(maskIn[2].seq) = 1
    /\ maskIn[1].seq = <<"A", "A">>
    /\ maskSites = <<1, 3>>
    /\ maskOut[1].seq = <<"A", "N">>
    /\ maskOut[2].seq = maskIn[2].seq

NoRepeat(s) == \A i \in 1..Len(s), j \in 1..Len(s) : i # j => s[i] # s[j]

\* In every state of the annotation: no clade was handled twice, only clades
\* below the root were handled, all of them once the traversal is over, and
\* the clade whose children are being handled has its cTiterSub.
C7_Once ==
    (cmd = "sub" /\ treeN > 0) =>
        /\ NoRepeat(processed)
        /\ Range(processed) \subseteq 2..treeN
        /\ Range(processed) \subseteq DOMAIN cTiterSub
        /\ it > treeN => Range(processed) = 2..treeN
        /\ it <= treeN =>
              LET node == find_clades(parent)[it]
              IN ci <= Len(clades(parent, node)) => node \in DOMAIN cTiterSub

C7_Kept ==
    \A n \in DOMAIN cTiterSub :
        n \in DOMAIN cTiterSub' /\ cTiterSub'[n] = cTiterSub[n]

\* C7: every clade but the root is handled exactly once, after its parent's
\* cTiterSub is set (C7_Once, in every state), and no step changes a cTiterSub
\* already set (C7_Kept, on every step).
C7_EachChildOnceAfterItsParent == []C7_Once /\ [][C7_Kept]_vars

C7_Witness ==
    /\ cmd = "sub" /\ pc = "done" /\ treeN = 3
    /\ parent[2] = 1 /\ parent[3] = 1
    /\ processed = <<2, 3>>
    /\ cTiterSub[2] # cTiterSub[3]
    /\ cTiterSub[3] > 0

\* The substitutions of gene g from strain a to strain b: a's residue first.
Substitutions(g, a, b) ==
    {<<g, <<Alignment[a][g][p], p, Alignment[b][g][p]>>>> :
        p \in {q \in DOMAIN Alignment[a][g] :
                 /\ Alignment[a][g][q] # Alignment[b][g][q]
                 /\ Alignment[a][g][q] # Gap
                 /\ Alignment[b][g][q] # Gap}}

\* The substitutions on the branch to child, the parent's residue first.
ParentToChild(child) ==
    UNION {Substitutions(Genes[g], name[parent[child]], name[child]) :
              g \in 1..Len(Genes)}

\* C8: the pairs whose fitted effects make up a child's dTiterSub are the
\* substitutions from the parent's sequence to the child's (parent residue,
\* position, child residue).
C8_MutationsParentToChild ==
    cmd = "sub" =>
        \A i \in 1..Len(processed) :
            LastProcessedWithName(i) =>
                LET S == ParentToChild(processed[i]) \cap DOMAIN substitution_effect
                IN nodes[name[processed[i]]].dTiterSub =
                      SetSum(S, [k \in S |-> substitution_effect[k]])

\* The annotation of clade n itself.
OwnAnnotation(n) ==
    IF cmd = "sub"
    THEN [dTiterSub |-> IF n = 1 THEN 0 ELSE cTiterSub[n] - cTiterSub[parent[n]],
          cTiterSub |-> cTiterSub[n]]
    ELSE [dTiter |-> dTiter[n], cTiter |-> cTiter[n]]

\* The order in which the clades are entered into the exported mapping.
ExportOrder == IF cmd = "sub" THEN <<1>> \o processed ELSE find_clades(parent)

\* C9 as stated: for every tree the parser can supply the exported mapping
\* has as many entries as the tree has clades, each clade's entry holding
\* that clade's own annotation.
C9_OneEntryPerNode ==
    (cmd \in {"sub", "tree"} /\ Written /\ "nodes" \in DOMAIN doc) =>
        /\ Cardinality(DOMAIN doc.nodes) = treeN
        /\ \A n \in 1..treeN :
              /\ name[n] \in DOMAIN doc.nodes
              /\ doc.nodes[name[n]] = OwnAnnotation(n)

\* C9 amended: the exported mapping holds one entry per clade name; when the
\* names are pairwise distinct that is one entry per clade, each holding the
\* clade's own annotation; clades that share a name, or are all unnamed,
\* share one entry, which holds the annotation of the one entered last.
C9_OneEntryPerName ==
    (cmd \in {"sub", "tree"} /\ Written /\ "nodes" \in DOMAIN doc) =>
        /\ DOMAIN doc.nodes = {name[n] : n \in 1..treeN}
        /\ NamesDistinct =>
              /\ Cardinality(DOMAIN doc.nodes) = treeN
              /\ \A n \in 1..treeN : doc.nodes[name[n]] = OwnAnnotation(n)
        /\ Len(ExportOrder) = treeN
        /\ \A i \in 1..treeN :
              (\A j \in (i + 1)..treeN : name[ExportOrder[j]] # name[ExportOrder[i]])
                 => doc.nodes[name[ExportOrder[i]]] = OwnAnnotation(ExportOrder[i])

C9_Witness ==
    /\ cmd = "sub" /\ pc = "done" /\ treeN = 3 /\ NamesDistinct
    /\ Cardinality(DOMAIN outFile[1].nodes) = 3
    /\ \E n \in 2..treeN : outFile[1].nodes[name[n]].cTiterSub > 0

\* A step of the annotation changes neither substitution_effect (a lookup of
\* an unfitted pair inserts nothing) nor the titers, potency, avidity and
\* substitution entries the document already holds.
C10_Step ==
    (cmd = "sub" /\ pc = "annotate") =>
        /\ substitution_effect' = substitution_effect
        /\ \A k \in SubKeys : k \in DOMAIN doc' /\ doc'[k] = doc[k]

\* C10: every step of the annotation leaves substitution_effect and the
\* document's fitted entries as they were.
C10_AnnotationKeepsFit == [][C10_Step]_vars

C10_Witness ==
    /\ cmd = "sub" /\ pc = "done" /\ treeN > 1
    /\ \E i \in 1..Len(processed) :
          \E m \in Range(ChildMutations(processed[i], parent[processed[i]])) :
              m \notin DOMAIN substitution_effect
    /\ DOMAIN substitution_effect # {}
    /\ outFile[1].substitution = substitution_effect

====
